---- MODULE Spec2Model ----
(***************************************************************************)
(* Model of app.py: the note generator's button handler (the Driver), the  *)
(* outline call, the heading extraction by regular expression and the      *)
(* streamed per-heading detail calls.                                      *)
(*                                                                         *)
(* Text is modelled as a sequence of one-character strings, so that the    *)
(* regular expression and the string concatenations work on characters.    *)
(* The answers of the completion API are the nondeterministic inputs.      *)
(***************************************************************************)
EXTENDS Integers, Sequences, FiniteSets, TLC

VARIABLES
    api_key,        \* sidebar text input (line 77)
    base_url,       \* sidebar text input (line 76)
    chat_log,       \* text area (line 86)
    pc,             \* position of the script run
    client,         \* line 99
    outline,        \* line 103
    headings,       \* line 109
    h_idx,          \* position of the for loop of line 116 (0-based: headings done)
    final_note,     \* lines 115, 120, 127
    streamed_response, \* text st.write_stream has received so far (line 126)
    full_response,  \* what st.write_stream returned (line 126)
    notices,        \* st.error / st.success notices of this run, in order
    rendered,       \* st.markdown heading lines of this run, in order
    download,       \* st.download_button (line 132)
    calls,          \* API requests issued in this run, in order, with their outcome
    chunks,         \* stream chunks arrived for the current heading
    yielded,        \* fragments yielded by the generator for the current heading
    sections        \* per finished heading: what its stream did

vars == <<api_key, base_url, chat_log, pc, client, outline, headings, h_idx,
          final_note, streamed_response, full_response, notices, rendered, download, calls,
          chunks, yielded, sections>>

-----------------------------------------------------------------------------
(* Bounds *)

\* an outline answer has at most this many lines
MaxLines == 2
\* at most this many stream chunks arrive for one heading
MaxChunks == 2

-----------------------------------------------------------------------------
(* Python values *)

None == [type |-> "NoneType"]
Unbound == [type |-> "unbound"]
Str(s) == [type |-> "str", val |-> s]

\* truth value of None or a str, as an if statement tests it
Truthy(v) == v # None /\ v.val # <<>>

NL == "\n"
\* the characters \s matches, among the characters used here
Whitespace == {" ", NL}
Char == {"#", " ", NL, "a", "b", "x", "y"}

\* the two-# heading prefix and the blank-line separator
HeadingPrefix == <<"#", "#", " ">>
BlankLine == <<NL, NL>>

RECURSIVE Concat(_)
Concat(ss) == IF ss = <<>> THEN <<>> ELSE Head(ss) \o Concat(Tail(ss))

-----------------------------------------------------------------------------
\* re.findall with the heading pattern of line 109, under re.MULTILINE:
\* line start, one or more #, one or more whitespace, captured rest of line

\* length of the longest run of characters of Cls that starts at position i
RECURSIVE RunLen(_, _, _)
RunLen(s, i, Cls) ==
    IF i <= Len(s) /\ s[i] \in Cls THEN 1 + RunLen(s, i + 1, Cls) ELSE 0

\* ^ under re.MULTILINE: the start of the text or just after a newline
AtLineStart(s, i) == i = 1 \/ s[i - 1] = NL

\* the pattern tried at position i; each quantifier is greedy and none of them
\* ever has to give a character back (what follows the # run is not
\* a #, what follows the whitespace run is not whitespace, and the captured
\* group may be empty)
MatchAt(s, i) ==
    LET h == RunLen(s, i, {"#"})
        w == RunLen(s, i + h, Whitespace)
        d == RunLen(s, i + h + w, Char \ {NL})
    IN  IF AtLineStart(s, i) /\ h >= 1 /\ w >= 1
        THEN [ok |-> TRUE, group |-> SubSeq(s, i + h + w, i + h + w + d - 1),
              end |-> i + h + w + d]
        ELSE [ok |-> FALSE, group |-> <<>>, end |-> i]

\* the non-overlapping matches from position pos on, left to right
RECURSIVE FindAllFrom(_, _)
FindAllFrom(s, pos) ==
    IF pos > Len(s) THEN <<>>
    ELSE LET m == MatchAt(s, pos)
         IN  IF m.ok THEN <<m.group>> \o FindAllFrom(s, m.end)
             ELSE FindAllFrom(s, pos + 1)

findall(s) == FindAllFrom(s, 1)

-----------------------------------------------------------------------------
\* What the completion API may answer

\* lines an outline answer is made of: blank, prose, a bare marker, a marker
\* with a gap and no title, a heading of the second level
OutlineLines ==
    { <<>>, <<"a">>, <<"#">>, <<"#", " ">>, <<"#", "#", " ", "b">> }

RECURSIVE JoinLines(_)
JoinLines(ls) ==
    IF Len(ls) = 1 THEN ls[1] ELSE ls[1] \o <<NL>> \o JoinLines(Tail(ls))

\* the outline texts: every text of 1 .. MaxLines of these lines
OutlineTexts ==
    UNION { { JoinLines(ls) : ls \in [1..n -> OutlineLines] } : n \in 1..MaxLines }

\* message.content of the outline answer
OutlineContents == {None} \cup { Str(t) : t \in OutlineTexts }

\* a stream chunk: choices[0].delta.content is None, empty or text, or the
\* chunk carries no choice at all
StreamChunks ==
    { [has_choice |-> TRUE, content |-> c] : c \in {None, Str(<<>>), Str(<<"x">>), Str(<<"y">>)} }
    \cup { [has_choice |-> FALSE, content |-> None] }

-----------------------------------------------------------------------------
\* Helper functions of app.py

DefaultBaseUrl == "https://api.openai.com/v1"

create_openai_client(key, url) ==
    [api_key |-> key, base_url |-> IF url # "" THEN url ELSE DefaultBaseUrl]

\* line 95 without its test of the chat log
ChatLogMissing_Unchecked == FALSE

\* line 93: not api_key
KeyMissing == api_key = ""

\* line 95: not chat_log
ChatLogMissing == chat_log = ""

\* an API request as issued, and the same log once the last request ended
Call(kind, heading) == [kind |-> kind, heading |-> heading, result |-> "pending"]
Ended(log, result) == [log EXCEPT ![Len(log)].result = result]

\* number of API requests that were issued and have not ended
InFlight == Cardinality({i \in 1..Len(calls) : calls[i].result = "pending"})

Notice(level, text, about) == [level |-> level, text |-> text, about |-> about]

\* f"## {heading}"
FullHeading(heading) == HeadingPrefix \o heading

\* line 67 testing for None only: an empty content is yielded too
YieldsFragment_NotNone(chunk) == chunk.content # None

\* the chunk test of the generator: does this chunk yield a fragment
YieldsFragment(chunk) == Truthy(chunk.content)

\* line 120 without the blank line after the heading line
AppendHeading_NoBlankLine(note, full_heading) == note \o full_heading

\* line 127 without the blank line after the detail text
AppendResponse_NoBlankLine(note, response) == note \o response

\* line 127 skipped for a heading that streamed nothing
AppendResponse_SkipEmpty(note, response) ==
    IF response = <<>> THEN note ELSE note \o response \o BlankLine

\* final_note += full_heading + "\n\n"
AppendHeading(note, full_heading) == note \o full_heading \o BlankLine

\* final_note += full_response + "\n\n"
AppendResponse(note, response) == note \o response \o BlankLine

-----------------------------------------------------------------------------
\* The script run

Init ==
    /\ api_key \in {"", "sk-1"}
    /\ base_url \in {"", "https://proxy/v1"}
    /\ chat_log \in {"", "log"}
    /\ pc = "idle"
    /\ client = Unbound
    /\ outline = Unbound
    /\ headings = <<>>
    /\ h_idx = 0
    /\ final_note = Unbound
    /\ streamed_response = <<>>
    /\ full_response = Unbound
    /\ notices = <<>>
    /\ rendered = <<>>
    /\ download = Unbound
    /\ calls = <<>>
    /\ chunks = <<>>
    /\ yielded = <<>>
    /\ sections = <<>>

\* the script is not running: before the first click or after a run ended
AtRest == pc \in {"idle", "stopped", "complete"}

\* every run starts from a blank page and blank locals
FreshRun ==
    /\ client' = Unbound
    /\ outline' = Unbound
    /\ headings' = <<>>
    /\ h_idx' = 0
    /\ final_note' = Unbound
    /\ streamed_response' = <<>>
    /\ full_response' = Unbound
    /\ rendered' = <<>>
    /\ download' = Unbound
    /\ calls' = <<>>
    /\ chunks' = <<>>
    /\ yielded' = <<>>
    /\ sections' = <<>>

\* lines 92-94: the button is clicked and the key is empty
ClickNoKey ==
    /\ AtRest
    /\ KeyMissing
    /\ FreshRun
    /\ notices' = <<Notice("error", "api_key_required", None)>>
    /\ pc' = "idle"
    /\ UNCHANGED <<api_key, base_url, chat_log>>

\* lines 95-96: the key is there and the chat log is empty
ClickNoChatLog ==
    /\ AtRest
    /\ ~KeyMissing
    /\ ChatLogMissing
    /\ FreshRun
    /\ notices' = <<Notice("error", "chat_log_required", None)>>
    /\ pc' = "idle"
    /\ UNCHANGED <<api_key, base_url, chat_log>>

\* lines 97-103 and 32: the client is built and the outline request is issued
ClickStart ==
    /\ AtRest
    /\ ~KeyMissing
    /\ ~ChatLogMissing
    /\ client' = create_openai_client(api_key, base_url)
    /\ outline' = Unbound
    /\ headings' = <<>>
    /\ h_idx' = 0
    /\ final_note' = Unbound
    /\ streamed_response' = <<>>
    /\ full_response' = Unbound
    /\ rendered' = <<>>
    /\ download' = Unbound
    /\ chunks' = <<>>
    /\ yielded' = <<>>
    /\ sections' = <<>>
    /\ notices' = <<>>
    /\ calls' = <<Call("outline", None)>>
    /\ pc' = "outlining"
    /\ UNCHANGED <<api_key, base_url, chat_log>>

\* line 43 returning the error text instead of None
OutlineOnError_Text == Str(<<"a">>)

\* what generate_outline returns from its except clause (line 43)
OutlineOnError == None

\* the test of line 105 on the value generate_outline returned
OutlineGuard(value) == Truthy(value)

\* lines 40-43 and 105-115: the outline request ended with this result and
\* generate_outline returned this value; the handler goes on only with a
\* truthy value
OutlineDone(value, result) ==
    /\ calls' = Ended(calls, result)
    /\ outline' = value
    /\ LET said == IF result = "raised"
                   THEN Append(notices, Notice("error", "outline_failed", None))
                   ELSE notices
       IN  IF OutlineGuard(value)
           THEN /\ notices' = Append(said, Notice("success", "outline_done", None))
                /\ headings' = findall(value.val)
                /\ final_note' = Str(<<>>)
                /\ pc' = "loop"
           ELSE /\ notices' = said
                /\ pc' = "stopped"
                /\ UNCHANGED <<headings, final_note>>
    /\ UNCHANGED <<api_key, base_url, chat_log, client, h_idx,
                   streamed_response, full_response, rendered, download,
                   chunks, yielded, sections>>

\* lines 41-43: the outline request raises
OutlineRaise ==
    /\ pc = "outlining"
    /\ OutlineDone(OutlineOnError, "raised")

\* line 40: the outline request is answered with this message content
OutlineReturn(content) ==
    /\ pc = "outlining"
    /\ OutlineDone(content, "returned")

\* lines 116-126: the next heading is taken, its heading line is shown and
\* appended, and the generator is handed to st.write_stream (not started yet)
LoopNext ==
    /\ pc = "loop"
    /\ h_idx < Len(headings)
    /\ LET full_heading == FullHeading(headings[h_idx + 1])
       IN  /\ rendered' = Append(rendered, full_heading)
           /\ final_note' = Str(AppendHeading(final_note.val, full_heading))
    /\ streamed_response' = <<>>
    /\ chunks' = <<>>
    /\ yielded' = <<>>
    /\ pc' = "write_stream"
    /\ UNCHANGED <<api_key, base_url, chat_log, client, outline, headings, h_idx,
                   full_response, notices, download, calls, sections>>

\* line 56: st.write_stream asks for the first fragment, the generator body
\* starts and issues the streaming request
DetailRequest ==
    /\ pc = "write_stream"
    /\ calls' = Append(calls, Call("detail", Str(headings[h_idx + 1])))
    /\ pc' = "streaming"
    /\ UNCHANGED <<api_key, base_url, chat_log, client, outline, headings, h_idx,
                   final_note, streamed_response, full_response, notices,
                   rendered, download, chunks, yielded, sections>>

\* lines 65-68 and st.write_stream: a chunk with a choice arrives; when it
\* carries content the generator yields it and st.write_stream adds it
DetailChunk(chunk) ==
    /\ pc = "streaming"
    /\ Len(chunks) < MaxChunks
    /\ chunk.has_choice
    /\ chunks' = Append(chunks, chunk)
    /\ IF YieldsFragment(chunk)
       THEN /\ yielded' = Append(yielded, chunk.content.val)
            /\ streamed_response' = streamed_response \o chunk.content.val
       ELSE UNCHANGED <<yielded, streamed_response>>
    /\ UNCHANGED <<api_key, base_url, chat_log, pc, client, outline, headings,
                   h_idx, final_note, full_response, notices, rendered,
                   download, calls, sections>>

\* a loop that tries a heading again after its stream failed
NextIndex_Retry(failed) == IF failed THEN h_idx ELSE h_idx + 1

\* a generator without its except clause: the failure ends the script run
AfterHeading_Abort(failed) == IF failed THEN "stopped" ELSE "loop"

\* line 116: the for loop takes each heading once, whatever its stream did
NextIndex(failed) == h_idx + 1

\* lines 69-70: the except clause of the generator swallows the failure, so
\* the handler is back at the loop header either way
AfterHeading(failed) == "loop"

\* the generator is exhausted (normally or after its except clause):
\* st.write_stream returns the text it received (its own accumulator is
\* gone with the call) and line 127 appends it
FinishHeading(failed) ==
    /\ calls' = Ended(calls, IF failed THEN "raised" ELSE "ended")
    /\ notices' =
         IF failed
         THEN Append(notices, Notice("error", "detail_failed", Str(headings[h_idx + 1])))
         ELSE notices
    /\ chunks' = <<>>
    /\ yielded' = <<>>
    /\ streamed_response' = <<>>
    /\ full_response' = Str(streamed_response)
    /\ final_note' = Str(AppendResponse(final_note.val, streamed_response))
    /\ sections' = Append(sections,
                     [heading |-> headings[h_idx + 1], yielded |-> yielded,
                      failed |-> failed])
    /\ h_idx' = NextIndex(failed)
    /\ pc' = AfterHeading(failed)
    /\ UNCHANGED <<api_key, base_url, chat_log, client, outline, headings,
                   rendered, download>>

\* line 65: the stream ends
DetailEnd ==
    /\ pc = "streaming"
    /\ FinishHeading(FALSE)

\* lines 56/65 and 69-70: the request or the open stream raises
DetailRaise ==
    /\ pc = "streaming"
    /\ FinishHeading(TRUE)

\* lines 67 and 69-70: a chunk without any choice arrives, choices[0] raises
DetailBadChunk(chunk) ==
    /\ pc = "streaming"
    /\ Len(chunks) < MaxChunks
    /\ ~chunk.has_choice
    /\ FinishHeading(TRUE)

\* lines 116 and 129-137: the loop is over; completion notice and download
LoopExit ==
    /\ pc = "loop"
    /\ h_idx = Len(headings)
    /\ notices' = Append(notices, Notice("success", "note_done", None))
    /\ download' = [data |-> final_note.val, file_name |-> "note.md",
                    mime |-> "text/markdown"]
    /\ pc' = "complete"
    /\ UNCHANGED <<api_key, base_url, chat_log, client, outline, headings, h_idx,
                   final_note, streamed_response, full_response, rendered,
                   calls, chunks, yielded, sections>>

Next ==
    \/ ClickNoKey
    \/ ClickNoChatLog
    \/ ClickStart
    \/ OutlineRaise
    \/ \E content \in OutlineContents : OutlineReturn(content)
    \/ LoopNext
    \/ DetailRequest
    \/ \E chunk \in StreamChunks : DetailChunk(chunk)
    \/ \E chunk \in StreamChunks : DetailBadChunk(chunk)
    \/ DetailEnd
    \/ DetailRaise
    \/ LoopExit

Spec == Init /\ [][Next]_vars

\* the handler is straight-line code and every request ends (answer, end of
\* stream or exception): a step that can be taken is taken
FairSpec == Spec /\ WF_vars(Next)

-----------------------------------------------------------------------------
\* Vocabulary of the properties, written without the operators of the handler

\* the lines of a text (the newline is a separator, a line holds none)
RECURSIVE SplitLines(_)
SplitLines(s) ==
    LET n == RunLen(s, 1, Char \ {NL})
    IN  IF n = Len(s) THEN <<s>>
        ELSE <<SubSeq(s, 1, n)>> \o SplitLines(SubSeq(s, n + 2, Len(s)))

\* a heading-formatted line: one or more # and then whitespace in the line.
\* With bare, a line that is nothing but # and is ended by a newline counts
\* too, the newline being the whitespace (its title is empty).
HeadingLine(ls, k, bare) ==
    LET h == RunLen(ls[k], 1, {"#"})
    IN  /\ h >= 1
        /\ \/ RunLen(ls[k], h + 1, {" "}) >= 1
           \/ bare /\ h = Len(ls[k]) /\ k < Len(ls)

\* the content of a heading-formatted line after its # run and its first
\* whitespace run
LineTitle(line) ==
    LET h == RunLen(line, 1, {"#"})
        w == RunLen(line, h + 1, {" "})
    IN  SubSeq(line, h + w + 1, Len(line))

RECURSIVE TitlesFrom(_, _, _)
TitlesFrom(ls, k, bare) ==
    IF k > Len(ls) THEN <<>>
    ELSE (IF HeadingLine(ls, k, bare) THEN <<LineTitle(ls[k])>> ELSE <<>>)
         \o TitlesFrom(ls, k + 1, bare)

\* one title per heading-formatted line of the text, in order
TitlesByLine(s, bare) == TitlesFrom(SplitLines(s), 1, bare)

\* the section of one finished heading, and the note made of sections
SectionText(sec) ==
    <<"#", "#", " ">> \o sec.heading \o <<NL, NL>> \o Concat(sec.yielded) \o <<NL, NL>>

RECURSIVE NoteOf(_)
NoteOf(secs) ==
    IF secs = <<>> THEN <<>> ELSE SectionText(Head(secs)) \o NoteOf(Tail(secs))

IsSubstring(sub, s) ==
    \E i \in 0..(Len(s) - Len(sub)) : SubSeq(s, i + 1, i + Len(sub)) = sub

\* the contents of the chunks that carry a non-empty content, in order
RECURSIVE NonEmptyContents(_)
NonEmptyContents(cs) ==
    IF cs = <<>> THEN <<>>
    ELSE (IF Head(cs).content \in {None, Str(<<>>)} THEN <<>>
          ELSE <<Head(cs).content.val>>)
         \o NonEmptyContents(Tail(cs))

DetailCalls == SelectSeq(calls, LAMBDA c : c.kind = "detail")
FailedSections == {i \in 1..Len(sections) : sections[i].failed}
HasNotice(n) == \E i \in 1..Len(notices) : notices[i] = n
OutlineText == outline \notin {Unbound, None}
Draining == pc \in {"write_stream", "streaming"}

-----------------------------------------------------------------------------
\* The properties

\* C1: in a run whose access key or transcript is empty the driver stays at
\* idle, no client is built, no API call is made, and the only notice is the
\* one for the missing input: the key's when the key is empty, the
\* transcript's when the key is there and the transcript is empty.
C1_PreconditionHalt ==
    (api_key = "" \/ chat_log = "") =>
        /\ pc = "idle"
        /\ client = Unbound
        /\ calls = <<>>
        /\ final_note = Unbound
        /\ download = Unbound
        /\ notices \in
             { <<>>,
               <<Notice("error",
                        IF api_key = "" THEN "api_key_required"
                        ELSE "chat_log_required", None)>> }

C1_Witness ==
    /\ api_key # ""
    /\ chat_log = ""
    /\ pc = "idle"
    /\ notices = <<Notice("error", "chat_log_required", None)>>

\* C2: when the outline call raises, no detail call is made in that run, the
\* final note stays unset, neither completion notice nor download is offered,
\* and the one notice is the failure notice of the outline step.
C2_OutlineFailureStops ==
    (calls # <<>> /\ calls[1].result = "raised") =>
        /\ pc = "stopped"
        /\ Len(calls) = 1
        /\ final_note = Unbound
        /\ download = Unbound
        /\ rendered = <<>>
        /\ notices = <<Notice("error", "outline_failed", None)>>

C2_Witness ==
    /\ pc = "stopped"
    /\ calls # <<>>
    /\ calls[1].result = "raised"
    /\ outline = None

\* C3: for every outline text the outline stage returned that holds no
\* heading-formatted line, the empty text included, no heading is extracted,
\* no detail call is made, the final note is empty and the run goes on to
\* complete (completion notice and download of the empty note); it never ends
\* without completing.
C3_NoHeadingsCompletes ==
    ( /\ calls # <<>>
      /\ calls[1].result = "returned"
      /\ OutlineText
      /\ TitlesByLine(outline.val, TRUE) = <<>> ) =>
        /\ headings = <<>>
        /\ Len(calls) = 1
        /\ pc \in {"loop", "complete"}
        /\ final_note = Str(<<>>)
        /\ pc = "complete" =>
             /\ download # Unbound
             /\ download.data = <<>>
             /\ HasNotice(Notice("success", "note_done", None))

\* C4: at complete, the section of every heading whose stream ended without
\* failure (heading line, blank line, its fragments in arrival order, blank
\* line) is a substring of the final note, and when every heading succeeded
\* the final note is exactly these sections in heading order.
C4_SectionsAtComplete ==
    pc = "complete" =>
        /\ \A i \in 1..Len(sections) :
             ~sections[i].failed => IsSubstring(SectionText(sections[i]), final_note.val)
        /\ FailedSections = {} =>
             /\ Len(sections) = Len(headings)
             /\ \A i \in 1..Len(sections) : sections[i].heading = headings[i]
             /\ final_note.val = NoteOf(sections)
             /\ download.data = NoteOf(sections)

C4_Witness ==
    /\ pc = "complete"
    /\ Len(sections) = 2
    /\ FailedSections = {}
    /\ sections[1].yielded = <<<<"x">>, <<"y">>>>
    /\ sections[2].yielded # <<>>

\* C5: a failed detail call never aborts the loop: each failure puts up one
\* error notice naming its heading, the run is never stopped once a heading
\* was processed, the loop header always has its next step, the fragments
\* yielded before the failure are in the final note, and at complete every
\* heading was attempted.
C5_FailureDoesNotAbort ==
    /\ \A i \in FailedSections :
         HasNotice(Notice("error", "detail_failed", Str(sections[i].heading)))
    /\ Cardinality({n \in 1..Len(notices) : notices[n].text = "detail_failed"})
         = Cardinality(FailedSections)
    /\ sections # <<>> => pc \in {"loop", "write_stream", "streaming", "complete"}
    /\ pc = "loop" =>
         /\ Len(sections) = h_idx
         /\ h_idx < Len(headings) => ENABLED LoopNext
         /\ h_idx = Len(headings) => ENABLED LoopExit
    /\ \A i \in 1..Len(sections) :
         /\ sections[i].heading = headings[i]
         /\ IsSubstring(SectionText(sections[i]), final_note.val)
    /\ pc = "complete" =>
         /\ Len(sections) = Len(headings)
         /\ Len(DetailCalls) = Len(headings)

\* C5, its progress part, under FairSpec: once a heading's detail call has
\* failed, the run still reaches complete.
C5_ReachesComplete == (FailedSections # {}) ~> (pc = "complete")

C5_Witness ==
    /\ pc = "complete"
    /\ Len(sections) = 2
    /\ sections[1].failed
    /\ sections[1].yielded # <<>>
    /\ ~sections[2].failed
    /\ sections[2].yielded # <<>>

\* C6: the extracted headings are exactly one title per heading-formatted
\* line of the outline, in order, each the content of that same line after
\* its # run and first whitespace run; other lines give no heading.  The
\* statement is taken in both readings of a line that holds only # marks.
C6_OneTitlePerHeadingLine ==
    (OutlineText /\ pc \in {"loop", "write_stream", "streaming", "complete"}) =>
        headings \in {TitlesByLine(outline.val, FALSE), TitlesByLine(outline.val, TRUE)}

\* C7 as stated: in every state, the states of a drain included, the final
\* note is the concatenation of the full sections of the headings processed
\* so far (with the heading being drained either left out or counted with
\* what it has yielded so far).
C7_FullSectionsAlways ==
    final_note # Unbound =>
        \/ final_note.val = NoteOf(sections)
        \/ /\ Draining
           /\ final_note.val =
                NoteOf(Append(sections, [heading |-> headings[h_idx + 1],
                                         yielded |-> yielded, failed |-> FALSE]))

\* C7 amended: at the loop header and at complete the final note is the
\* concatenation of the full sections of exactly the headings finished so
\* far; from the moment a heading line is emitted until its stream is
\* drained, the note is that concatenation followed by the heading line and
\* its blank line only.
C7_SectionsThenHeadingLine ==
    final_note # Unbound =>
        /\ Len(sections) = h_idx
        /\ \A i \in 1..h_idx : sections[i].heading = headings[i]
        /\ final_note.val =
             NoteOf(sections)
             \o (IF Draining
                 THEN <<"#", "#", " ">> \o headings[h_idx + 1] \o <<NL, NL>>
                 ELSE <<>>)

C7_Witness ==
    /\ pc = "streaming"
    /\ Len(sections) = 1
    /\ sections[1].yielded # <<>>
    /\ yielded # <<>>

\* C8: a run that passed the preconditions issues exactly one outline call,
\* first; every other call is the detail call of one heading, in heading
\* order, none repeated; a call is issued only after every earlier one has
\* ended, so at most one is in flight; a stopped run made no detail call and
\* a complete one made exactly one per extracted heading.
C8_SequentialCalls ==
    /\ InFlight <= 1
    /\ \A i \in 1..Len(calls) : calls[i].result = "pending" => i = Len(calls)
    /\ pc \notin {"idle"} => Len(calls) >= 1
    /\ \A i \in 1..Len(calls) : (calls[i].kind = "outline") <=> (i = 1)
    /\ Len(calls) > 1 => calls[1].result = "returned"
    /\ Len(DetailCalls) <= Len(headings)
    /\ \A i \in 1..Len(DetailCalls) : DetailCalls[i].heading = Str(headings[i])
    /\ Len(DetailCalls) \in {Len(sections), Len(sections) + 1}
    /\ pc = "stopped" => Len(DetailCalls) = 0
    /\ pc = "complete" => Len(DetailCalls) = Len(headings)

C8_Witness ==
    /\ pc = "complete"
    /\ Len(calls) = 3
    /\ calls[2].result = "raised"
    /\ calls[3].result = "ended"

\* C9: for one heading the fragments yielded so far are exactly the contents
\* of the arrived chunks whose content is non-empty, in arrival order; no
\* fragment is empty; what st.write_stream holds is their concatenation; and
\* when the stream ends or fails, the fragments yielded until then are the
\* heading's result.
C9_FragmentsAreNonEmptyContents ==
    /\ [](/\ yielded = NonEmptyContents(chunks)
          /\ \A i \in 1..Len(yielded) : yielded[i] # <<>>
          /\ streamed_response = Concat(yielded)
          /\ \A i \in 1..Len(sections) :
               \A j \in 1..Len(sections[i].yielded) : sections[i].yielded[j] # <<>>)
    /\ [][(pc = "streaming" /\ pc' # "streaming") =>
            /\ sections'[Len(sections')].yielded = NonEmptyContents(chunks)
            /\ full_response' = Str(Concat(NonEmptyContents(chunks)))]_vars

C9_Witness ==
    /\ pc = "streaming"
    /\ Len(chunks) = 2
    /\ chunks[1].content = Str(<<>>)
    /\ chunks[2].content = Str(<<"y">>)
    /\ yielded = <<<<"y">>>>
    /\ \E i \in 1..Len(sections) : sections[i].failed /\ sections[i].yielded = <<>>

\* C10: a heading line and its blank line are at the end of the final note
\* before that heading's detail request is issued, and at complete the final
\* note is one section per extracted heading, in outline order, whatever the
\* detail call did: a repeated title gives a repeated section and a heading
\* that failed before any fragment gives its heading line and two blank lines.
C10_OneSectionPerHeading ==
    /\ Draining =>
         LET line == <<"#", "#", " ">> \o headings[h_idx + 1] \o <<NL, NL>>
         IN  /\ Len(final_note.val) >= Len(line)
             /\ SubSeq(final_note.val, Len(final_note.val) - Len(line) + 1,
                       Len(final_note.val)) = line
    /\ pc = "write_stream" => Len(DetailCalls) = h_idx
    /\ pc = "complete" =>
         /\ Len(sections) = Len(headings)
         /\ final_note.val =
              Concat([i \in 1..Len(headings) |->
                        <<"#", "#", " ">> \o headings[i] \o <<NL, NL>>
                        \o Concat(sections[i].yielded) \o <<NL, NL>>])
         /\ \A i \in FailedSections :
              sections[i].yielded = <<>> =>
                IsSubstring(<<"#", "#", " ">> \o headings[i] \o <<NL, NL, NL, NL>>,
                            final_note.val)

C10_Witness ==
    /\ pc = "complete"
    /\ Len(headings) = 2
    /\ headings[1] = headings[2]
    /\ sections[1].failed
    /\ sections[1].yielded = <<>>
    /\ sections[2].yielded # <<>>

====
